---- MODULE Spec2Model ----
(***************************************************************************)
(* ChineseLangHelper: lesson/word records, the directory-backed lesson     *)
(* manager and the controller that coordinates the listing and detail      *)
(* views.  Python strings are sequences of one-character strings, None is  *)
(* the record None, and a call that can raise returns Ok(v) or Raise(e).   *)
(***************************************************************************)
EXTENDS Integers, Sequences, FiniteSets, TLC

\* ------------------------------------------------------------------ bounds
MaxFileWords == 2      \* longest word list of a mapping drawn in Init
MaxWords == 3          \* longest word list an add-word action may produce

\* ----------------------------------------------------------- Python values
None == [none |-> TRUE]
IsNone(x) == "none" \in DOMAIN x
Str(s) == [s |-> s]

Ok(v) == [exc |-> "none", val |-> v]
Raise(e) == [exc |-> e]
Raised(r) == r.exc # "none"

Range(s) == {s[i] : i \in DOMAIN s}

\* ----------------------------------------------------------------- strings
UpperChars == <<"A","B","C","D","E","F","G","H","I","J","K","L","M",
                "N","O","P","Q","R","S","T","U","V","W","X","Y","Z">>
LowerChars == <<"a","b","c","d","e","f","g","h","i","j","k","l","m",
                "n","o","p","q","r","s","t","u","v","w","x","y","z">>
DigitChars == <<"0","1","2","3","4","5","6","7","8","9">>

IndexOf(seq, c) == CHOOSE i \in DOMAIN seq : seq[i] = c

UpperSet == Range(UpperChars)
LowerSet == Range(LowerChars)
DigitSet == Range(DigitChars)
Chars == UpperSet \cup LowerSet \cup DigitSet \cup {" ", "!", "-", ".", "_"}

\* ord(c) for the characters the model uses
OrdTable ==
  [c \in Chars |->
     IF c \in UpperSet THEN 64 + IndexOf(UpperChars, c)
     ELSE IF c \in LowerSet THEN 96 + IndexOf(LowerChars, c)
     ELSE IF c \in DigitSet THEN 47 + IndexOf(DigitChars, c)
     ELSE CASE c = " " -> 32
            [] c = "!" -> 33
            [] c = "-" -> 45
            [] c = "." -> 46
            [] c = "_" -> 95]

ord(c) == OrdTable[c]

LowerTable ==
  [c \in Chars |-> IF c \in UpperSet THEN LowerChars[IndexOf(UpperChars, c)] ELSE c]

isalnum(c) == c \in UpperSet \cup LowerSet \cup DigitSet
isspace(c) == c = " "
lower_char(c) == LowerTable[c]

str_lower(s) == [i \in DOMAIN s |-> lower_char(s[i])]

RECURSIVE str_lstrip(_)
str_lstrip(s) == IF s # <<>> /\ isspace(Head(s)) THEN str_lstrip(Tail(s)) ELSE s

RECURSIVE str_rstrip(_)
str_rstrip(s) ==
  IF s # <<>> /\ isspace(s[Len(s)]) THEN str_rstrip(SubSeq(s, 1, Len(s) - 1)) ELSE s

str_strip(s) == str_rstrip(str_lstrip(s))

StartsWith(s, p) == Len(s) >= Len(p) /\ SubSeq(s, 1, Len(p)) = p
str_endswith(s, p) == Len(s) >= Len(p) /\ SubSeq(s, Len(s) - Len(p) + 1, Len(s)) = p

\* s.replace(old, new) for a non-empty old: every occurrence, left to right
RECURSIVE str_replace(_, _, _)
str_replace(s, old, new) ==
  IF s = <<>> THEN <<>>
  ELSE IF StartsWith(s, old)
       THEN new \o str_replace(SubSeq(s, Len(old) + 1, Len(s)), old, new)
       ELSE <<Head(s)>> \o str_replace(Tail(s), old, new)

\* s < t for Python strings: lexicographic on code points
RECURSIVE str_lt(_, _)
str_lt(s, t) ==
  IF t = <<>> THEN FALSE
  ELSE IF s = <<>> THEN TRUE
  ELSE IF ord(Head(s)) # ord(Head(t)) THEN ord(Head(s)) < ord(Head(t))
  ELSE str_lt(Tail(s), Tail(t))

JsonExt == <<".", "j", "s", "o", "n">>

\* mapping.get(key, default)
dict_get(data, key, default) == IF key \in DOMAIN data THEN data[key] ELSE default

\* -------------------------------------------------------------------- Word
Word(chinese, pinyin, english) ==
  [chinese |-> chinese, pinyin |-> pinyin, english |-> english]

\* to_dict written by hand with a field forgotten
Word_to_dict_short(self) ==
  [k \in {"chinese", "english"} |-> self[k]]

Word_to_dict(self) ==
  [k \in {"chinese", "pinyin", "english"} |-> self[k]]

Word_from_dict(data) ==
  Word(dict_get(data, "chinese", <<>>),
       dict_get(data, "pinyin", <<>>),
       dict_get(data, "english", <<>>))

\* ------------------------------------------------------------------ Lesson
LessonRequired == {"name", "description", "words", "is_valid_json"}

\* Lesson(**kw): the dataclass constructor; is_valid_json has no default.
\* __post_init__ converts a list of mappings to Words; every caller passes
\* Words (from_dict converts before it constructs), so it changes nothing.
Lesson(kw) ==
  IF ~(LessonRequired \subseteq DOMAIN kw)
  THEN Raise("TypeError")
  ELSE Ok([name |-> kw.name,
           description |-> kw.description,
           words |-> kw.words,
           is_valid_json |-> kw.is_valid_json,
           filename |-> dict_get(kw, "filename", None)])

\* a membership test that finds nothing
HasKey_never(words, chinese) == FALSE

HasKey(words, chinese) == \E i \in DOMAIN words : words[i].chinese = chinese

add_word_nocheck(self, word) ==
  [ret |-> TRUE, self |-> [self EXCEPT !.words = Append(@, word)]]

add_word(self, word) ==
  IF HasKey(self.words, word.chinese)
  THEN [ret |-> FALSE, self |-> self]
  ELSE [ret |-> TRUE, self |-> [self EXCEPT !.words = Append(@, word)]]

seq_pop(s, i) == SubSeq(s, 1, i - 1) \o SubSeq(s, i + 1, Len(s))

remove_word(self, chinese) ==
  IF HasKey(self.words, chinese)
  THEN LET i == CHOOSE j \in DOMAIN self.words :
                  /\ self.words[j].chinese = chinese
                  /\ \A k \in 1..(j - 1) : self.words[k].chinese # chinese
       IN [ret |-> TRUE, self |-> [self EXCEPT !.words = seq_pop(@, i)]]
  ELSE [ret |-> FALSE, self |-> self]

get_word_count(self) == Len(self.words)

Lesson_to_dict(self) ==
  [name |-> self.name,
   description |-> self.description,
   words |-> [i \in DOMAIN self.words |-> Word_to_dict(self.words[i])],
   is_valid_json |-> self.is_valid_json]

UnknownLesson == <<"U", "n", "k", "n", "o", "w", "n", " ", "L", "e", "s", "s", "o", "n">>

\* from_dict with the description default of the listing summaries
Lesson_from_dict_nodesc(data, filename) ==
  LET words_data == dict_get(data, "words", <<>>)
      words == [i \in DOMAIN words_data |-> Word_from_dict(words_data[i])]
  IN Lesson([name |-> dict_get(data, "name", UnknownLesson),
             description |-> dict_get(data, "description", <<"N", "o">>),
             words |-> words,
             is_valid_json |-> dict_get(data, "is_valid_json", TRUE),
             filename |-> filename])

Lesson_from_dict(data, filename) ==
  LET words_data == dict_get(data, "words", <<>>)
      words == [i \in DOMAIN words_data |-> Word_from_dict(words_data[i])]
  IN Lesson([name |-> dict_get(data, "name", UnknownLesson),
             description |-> dict_get(data, "description", <<>>),
             words |-> words,
             is_valid_json |-> dict_get(data, "is_valid_json", TRUE),
             filename |-> filename])

\* ----------------------------------------------------------------- storage
\* fs.exists: the data folder exists; fs.files: filename -> content, where a
\* content is [kind |-> "garbage"] (not JSON), [kind |-> "array"] (JSON, not
\* an object) or [kind |-> "object", obj |-> mapping].
Garbage == [kind |-> "garbage"]
JsonArray == [kind |-> "array"]
JsonObject(obj) == [kind |-> "object", obj |-> obj]

\* open(filepath, 'r')
open_read(fs, filename) ==
  IF fs.exists /\ filename \in DOMAIN fs.files
  THEN Ok(fs.files[filename])
  ELSE Raise("FileNotFoundError")

\* json.load(f)
json_load(content) ==
  IF content.kind = "garbage" THEN Raise("JSONDecodeError") ELSE Ok(content)

\* open(filepath, 'w') followed by json.dump: io_ok = FALSE is an I/O error
\* (read-only folder, full disk) raised by open before anything is written
write_file(fs, filename, obj, io_ok) ==
  IF fs.exists /\ io_ok
  THEN Ok([fs EXCEPT !.files =
             [f \in DOMAIN fs.files \cup {filename} |->
                IF f = filename THEN JsonObject(obj) ELSE fs.files[f]]])
  ELSE Raise("OSError")

\* Lesson.from_file; basename(filepath) is filename
from_file(fs, filename) ==
  LET f == open_read(fs, filename) IN
  IF Raised(f) THEN f
  ELSE LET data == json_load(f.val) IN
       IF Raised(data) THEN data
       ELSE IF data.val.kind = "array" THEN Raise("TypeError")
       ELSE IF "is_valid_json" \notin DOMAIN data.val.obj THEN Raise("KeyError")
       ELSE IF ~data.val.obj.is_valid_json THEN Ok(None)
       ELSE Lesson_from_dict(data.val.obj, Str(filename))

\* Lesson.save_to_file
save_to_file(self, fs, filename, io_ok) ==
  LET w == write_file(fs, filename, Lesson_to_dict(self), io_ok) IN
  IF Raised(w) THEN [exc |-> w.exc, self |-> self, fs |-> fs]
  ELSE [exc |-> "none",
        self |-> IF IsNone(self.filename) \/ self.filename.s = <<>>
                 THEN [self EXCEPT !.filename = Str(filename)] ELSE self,
        fs |-> w.val]

\* ------------------------------------------------------------ LessonManager
SampleName == <<"B","a","s","i","c"," ","G","r","e","e","t","i","n","g","s">>
SampleDescription == <<"C","o","m","m","o","n"," ","g","r","e","e","t","i","n","g","s">>
SampleFile == <<"b","a","s","i","c","_","g","r","e","e","t","i","n","g","s",".","j","s","o","n">>
SampleWords ==
  << Word(<<"n","i","h","a","o">>, <<"n","i"," ","h","a","o">>, <<"h","e","l","l","o">>),
     Word(<<"x","i","e","x","i","e">>, <<"x","i","e"," ","x","i","e">>, <<"t","h","a","n","k"," ","y","o","u">>),
     Word(<<"z","a","i","j","i","a","n">>, <<"z","a","i"," ","j","i","a","n">>, <<"g","o","o","d","b","y","e">>),
     Word(<<"d","u","i","b","u","q","i">>, <<"d","u","i"," ","b","u"," ","q","i">>, <<"s","o","r","r","y">>),
     Word(<<"b","u","k","e","q","i">>, <<"b","u"," ","k","e"," ","q","i">>, <<"y","o","u","r","e"," ","w","e","l","c","o","m","e">>),
     Word(<<"z","a","o","s","h","a","n","g","h","a","o">>, <<"z","a","o"," ","s","h","a","n","g"," ","h","a","o">>, <<"g","o","o","d"," ","m","o","r","n","i","n","g">>) >>

_create_sample_lesson(fs, io_ok) ==
  LET sample_lesson == Lesson([name |-> SampleName,
                               description |-> SampleDescription,
                               words |-> SampleWords]) IN
  IF Raised(sample_lesson) THEN [exc |-> sample_lesson.exc, fs |-> fs]
  ELSE LET s == save_to_file(sample_lesson.val, fs, SampleFile, io_ok)
       IN [exc |-> s.exc, fs |-> s.fs]

ensure_data_folder_exists(fs, io_ok) ==
  IF ~fs.exists
  THEN _create_sample_lesson([fs EXCEPT !.exists = TRUE], io_ok)
  ELSE [exc |-> "none", fs |-> fs]

\* LessonManager.__init__
LessonManager_init(fs, io_ok) == ensure_data_folder_exists(fs, io_ok)

\* listdir is a sequence holding each file of the folder once, in the order
\* the operating system happens to return them
get_lesson_files(fs, listdir) ==
  IF ~fs.exists THEN <<>>
  ELSE LET IsJson(f) == str_endswith(f, JsonExt) IN SelectSeq(listdir, IsJson)

NoDescription == <<"N","o"," ","d","e","s","c","r","i","p","t","i","o","n"," ","a","v","a","i","l","a","b","l","e">>

\* get_lesson_info with an except branch that still reports the file valid
get_lesson_info_allvalid(fs, filename) ==
  LET f == open_read(fs, filename)
      data == IF Raised(f) THEN f ELSE json_load(f.val)
      ok == ~Raised(data) /\ data.val.kind = "object"
  IN [filename |-> filename,
      name |-> IF ok THEN dict_get(data.val.obj, "name", str_replace(filename, JsonExt, <<>>))
               ELSE str_replace(filename, JsonExt, <<>>),
      description |-> IF ok THEN Str(dict_get(data.val.obj, "description", NoDescription))
                      ELSE [error_reading |-> "error"],
      word_count |-> IF ok THEN Len(dict_get(data.val.obj, "words", <<>>)) ELSE 0,
      valid |-> TRUE,
      error |-> IF ok THEN None ELSE [msg |-> "error"]]

get_lesson_info(fs, filename) ==
  LET f == open_read(fs, filename)
      data == IF Raised(f) THEN f ELSE json_load(f.val)
      e == IF Raised(data) THEN data.exc
           ELSE IF data.val.kind = "array" THEN "AttributeError" ELSE "none"
  IN IF e = "none"
     THEN [filename |-> filename,
           name |-> dict_get(data.val.obj, "name", str_replace(filename, JsonExt, <<>>)),
           description |-> Str(dict_get(data.val.obj, "description", NoDescription)),
           word_count |-> Len(dict_get(data.val.obj, "words", <<>>)),
           valid |-> TRUE,
           error |-> None]
     ELSE [filename |-> filename,
           name |-> str_replace(filename, JsonExt, <<>>),
           description |-> [error_reading |-> e],
           word_count |-> 0,
           valid |-> FALSE,
           error |-> [msg |-> e]]

load_lesson(fs, filename) ==
  LET r == from_file(fs, filename) IN IF Raised(r) THEN None ELSE r.val

Truthy(optstr) == ~IsNone(optstr) /\ optstr.s # <<>>

\* the derivation without the strip of leading and trailing spaces
safe_name_nostrip(name) ==
  LET Keep(c) == isalnum(c) \/ c \in {" ", "-", "_"}
  IN str_lower(str_replace(SelectSeq(name, Keep), <<" ">>, <<"_">>))

safe_name(name) ==
  LET Keep(c) == isalnum(c) \/ c \in {" ", "-", "_"}
  IN str_lower(str_replace(str_strip(SelectSeq(name, Keep)), <<" ">>, <<"_">>))

\* save_lesson(lesson, filename=None)
save_lesson(fs, lesson, filename, io_ok) ==
  LET named == IF Truthy(filename) THEN [lesson EXCEPT !.filename = filename]
               ELSE IF ~Truthy(lesson.filename)
                    THEN [lesson EXCEPT !.filename = Str(safe_name(lesson.name) \o JsonExt)]
                    ELSE lesson
      s == save_to_file(named, fs, named.filename.s, io_ok)
  IN [ret |-> ~Raised(s), lesson |-> s.self, fs |-> s.fs]

\* a removal that answers True whether or not the file was there
delete_lesson_unchecked(fs, filename, io_ok) ==
  IF fs.exists /\ filename \in DOMAIN fs.files /\ io_ok
  THEN [ret |-> TRUE,
        fs |-> [fs EXCEPT !.files = [f \in DOMAIN fs.files \ {filename} |-> fs.files[f]]]]
  ELSE [ret |-> TRUE, fs |-> fs]

\* os.remove(filepath)
delete_lesson(fs, filename, io_ok) ==
  IF fs.exists /\ filename \in DOMAIN fs.files /\ io_ok
  THEN [ret |-> TRUE,
        fs |-> [fs EXCEPT !.files = [f \in DOMAIN fs.files \ {filename} |-> fs.files[f]]]]
  ELSE [ret |-> FALSE, fs |-> fs]

\* the listdir order kept as it came
unsorted(filenames) == filenames

sorted(filenames) == SortSeq(filenames, str_lt)

get_all_lessons_info(fs, listdir) ==
  LET lesson_files == sorted(get_lesson_files(fs, listdir))
  IN [i \in DOMAIN lesson_files |-> get_lesson_info(fs, lesson_files[i])]

\* =================================================================== state
VARIABLES
  fs,               \* the data folder: [exists, files]
  pc,               \* "off" | "running" | "crashed": the application process
  view,             \* "Listing" | "Detail": stacked_widget's current index
  current_lesson,   \* MainController.current_lesson (LessonView holds the same object)
  display_words,    \* LessonView.display_words
  lessons_info,     \* the summaries MenuView.populate_lessons last received
  lesson,           \* a Lesson held by a direct caller of the record's methods
  last,             \* what the last operation was given and what it answered
  deleteLesson_modal  \* LessonView.deleteLesson_modal: None or the dialog it keeps

vars == <<fs, pc, view, current_lesson, display_words, lessons_info, lesson, last,
          deleteLesson_modal>>

NoFs == [exists |-> FALSE, files |-> <<>>]

\* --------------------------------------------------------- bounded inputs
ChineseTexts == {<<"x">>, <<"y">>}
PinyinTexts == {<<"p">>}
EnglishTexts == {<<"e">>}
WordKeys == {"chinese", "pinyin", "english"}

Restrict(f, D) == [k \in D |-> f[k]]

\* JSON objects for words: any of the three keys may be missing
WordDicts ==
  {Restrict(Word(c, p, e), D) :
     c \in ChineseTexts, p \in PinyinTexts, e \in EnglishTexts, D \in SUBSET WordKeys}

WordObjs == {Word_from_dict(d) : d \in WordDicts}

SeqsUpTo(S, n) == UNION {[1..k -> S] : k \in 0..n}

LessonNames == {<<"A">>}
Descriptions == {<<"d">>}
LessonKeys == {"name", "description", "words", "is_valid_json"}

\* JSON objects for lessons: any key may be missing, and "extra" is a key the
\* program does not know
LessonDicts ==
  {Restrict([name |-> n, description |-> d, words |-> ws, is_valid_json |-> v, extra |-> <<"z">>], D) :
     n \in LessonNames, d \in Descriptions, ws \in SeqsUpTo(WordDicts, MaxFileWords),
     v \in BOOLEAN, D \in SUBSET (LessonKeys \cup {"extra"})}

\* ============================================ the Lesson record on its own
LInit ==
  /\ \E data \in LessonDicts :
       /\ lesson = Lesson_from_dict(data, None).val
       /\ last = [op |-> "from_dict", data |-> data]
  /\ fs = NoFs
  /\ pc = "off"
  /\ view = "Listing"
  /\ current_lesson = None
  /\ display_words = <<>>
  /\ lessons_info = <<>>
  /\ deleteLesson_modal = None

LAddWord(word) ==
  /\ Len(lesson.words) < MaxWords
  /\ LET r == add_word(lesson, word) IN
       /\ lesson' = r.self
       /\ last' = [op |-> "add_word", word |-> word, ret |-> r.ret, before |-> lesson.words]
  /\ UNCHANGED <<fs, pc, view, current_lesson, display_words, lessons_info,
                 deleteLesson_modal>>

LRemoveWord(chinese) ==
  /\ LET r == remove_word(lesson, chinese) IN
       /\ lesson' = r.self
       /\ last' = [op |-> "remove_word", chinese |-> chinese, ret |-> r.ret,
                   before |-> lesson.words]
  /\ UNCHANGED <<fs, pc, view, current_lesson, display_words, lessons_info,
                 deleteLesson_modal>>

\* a caller serialises the lesson and parses the mapping back
LRoundTrip ==
  /\ last' = [op |-> "round_trip", ret |-> Lesson_from_dict(Lesson_to_dict(lesson), None)]
  /\ UNCHANGED <<lesson, fs, pc, view, current_lesson, display_words, lessons_info,
                 deleteLesson_modal>>

LNext ==
  \/ \E word \in WordObjs : LAddWord(word)
  \/ \E chinese \in ChineseTexts \cup {<<>>} : LRemoveWord(chinese)
  \/ LRoundTrip

SpecLesson == LInit /\ [][LNext]_vars

Count(s, x) == Cardinality({i \in DOMAIN s : s[i] = x})

\* C1: add_word of a word whose chinese key is not in the lesson returns true
\* and appends it last, so that it appears exactly once; add_word of a word
\* whose key is present (in particular the same word again) returns false
\* and leaves the words unchanged.
C1_AddWord ==
  last.op = "add_word" =>
    IF ~HasKey(last.before, last.word.chinese)
    THEN /\ last.ret = TRUE
         /\ lesson.words = Append(last.before, last.word)
         /\ Count(lesson.words, last.word) = 1
         /\ add_word(lesson, last.word) = [ret |-> FALSE, self |-> lesson]
    ELSE /\ last.ret = FALSE
         /\ lesson.words = last.before

C1_Witness ==
  /\ last.op = "add_word"
  /\ last.ret = TRUE
  /\ Len(last.before) >= 1

\* C2: remove_word(k) returns true iff the lesson held a word with chinese = k,
\* and no word with chinese = k remains afterwards.
C2_RemoveWord ==
  last.op = "remove_word" =>
    /\ last.ret = HasKey(last.before, last.chinese)
    /\ ~HasKey(lesson.words, last.chinese)

\* C11: from_dict(to_dict(L)) has the name, the description and the word
\* sequence of L, in the same order.
C11_RoundTrip ==
  last.op = "round_trip" =>
    /\ ~Raised(last.ret)
    /\ last.ret.val.name = lesson.name
    /\ last.ret.val.description = lesson.description
    /\ last.ret.val.words = lesson.words

C11_Witness ==
  /\ last.op = "round_trip"
  /\ Len(lesson.words) >= 2
  /\ lesson.words[1] # lesson.words[2]
  /\ \E i \in DOMAIN lesson.words : lesson.words[i].pinyin # <<>>

TextOr(data, key, default) == IF key \in DOMAIN data THEN data[key] ELSE default

\* the lesson from_dict must build from data when a missing name defaults
\* to name_default and every other missing text to the empty text
ParsedAs(data, name_default) ==
  LET ws == IF "words" \in DOMAIN data THEN data.words ELSE <<>> IN
  /\ lesson.name = TextOr(data, "name", name_default)
  /\ lesson.description = TextOr(data, "description", <<>>)
  /\ Len(lesson.words) = Len(ws)
  /\ \A i \in DOMAIN ws :
       /\ lesson.words[i].chinese = TextOr(ws[i], "chinese", <<>>)
       /\ lesson.words[i].pinyin = TextOr(ws[i], "pinyin", <<>>)
       /\ lesson.words[i].english = TextOr(ws[i], "english", <<>>)

\* C14 as stated: from_dict never fails on missing keys, and every missing
\* text field, the name included, defaults to the empty text and missing
\* words to the empty sequence.
C14_EmptyDefaults ==
  last.op = "from_dict" =>
    /\ ~Raised(Lesson_from_dict(last.data, None))
    /\ ParsedAs(last.data, <<>>)

\* C14 amended: as above, but a missing name defaults to "Unknown Lesson".
C14_TolerantParse ==
  last.op = "from_dict" =>
    /\ ~Raised(Lesson_from_dict(last.data, None))
    /\ ParsedAs(last.data, UnknownLesson)

C14_Witness ==
  /\ last.op = "from_dict"
  /\ DOMAIN last.data = {"words"}
  /\ Len(last.data.words) = 2
  /\ DOMAIN last.data.words[1] = {"chinese"}
  /\ DOMAIN last.data.words[2] = {}

\* ===================================================== the lesson manager
FileA == <<"a", ".", "j", "s", "o", "n">>
FileB == <<"b", ".", "j", "s", "o", "n">>
FileUpperB == <<"B", ".", "j", "s", "o", "n">>
FileNotes == <<"n", ".", "t", "x", "t">>
FileMissing == <<"c", ".", "j", "s", "o", "n">>

LessonFileNames == {FileA, FileB}
OtherFileNames == {FileUpperB, FileNotes}
ArgFileNames == LessonFileNames \cup OtherFileNames \cup {FileMissing}

WordX == Word(<<"x">>, <<"p">>, <<"e">>)
WordY == Word(<<"y">>, <<"p">>, <<"e">>)

\* a word list of k words for a stored file
FileWords(k) == [i \in 1..k |-> Word_to_dict(IF i % 2 = 1 THEN WordX ELSE WordY)]

FileDomains ==
  { LessonKeys, LessonKeys \cup {"extra"}, {"name", "description", "words"}, {} }

\* what a lesson file may hold: JSON objects in and near the storage layout
FileDicts ==
  {Restrict([name |-> <<"A">>, description |-> <<"d">>, words |-> FileWords(k),
             is_valid_json |-> v, extra |-> <<"z">>], D) :
     k \in 0..MaxFileWords, v \in BOOLEAN, D \in FileDomains}

FileContents == {Garbage, JsonArray} \cup {JsonObject(d) : d \in FileDicts}

\* the folders the program may find when it starts
Folders ==
  {NoFs} \cup
  { [exists |-> TRUE, files |-> files] :
      files \in UNION { {f \in [D1 \cup D2 -> FileContents] : \A n \in D2 : f[n] = Garbage} :
                          D1 \in SUBSET LessonFileNames, D2 \in SUBSET OtherFileNames } }

\* the lessons a caller may hand to save_lesson
LessonArgs ==
  {Lesson_from_dict(d, filename).val :
     d \in {d \in FileDicts : DOMAIN d = LessonKeys /\ d.is_valid_json},
     filename \in {None, Str(FileA)}}

Perms(S) == {p \in [1..Cardinality(S) -> S] : \A i, j \in DOMAIN p : p[i] = p[j] => i = j}

\* os.listdir(data_folder): the names in the folder, in any order
ListDirs(f) == IF f.exists THEN Perms(DOMAIN f.files) ELSE {<<>>}

SInit ==
  /\ fs \in Folders
  /\ pc = "off"
  /\ last = [op |-> "none"]
  /\ lesson = None
  /\ view = "Listing"
  /\ current_lesson = None
  /\ display_words = <<>>
  /\ lessons_info = <<>>
  /\ deleteLesson_modal = None

SFrame ==
  UNCHANGED <<lesson, view, current_lesson, display_words, lessons_info, deleteLesson_modal>>

\* LessonManager(): also after the process died in an earlier construction
SConstruct(io_ok) ==
  /\ pc \in {"off", "crashed"}
  /\ LET r == LessonManager_init(fs, io_ok) IN
       /\ fs' = r.fs
       /\ pc' = IF r.exc = "none" THEN "running" ELSE "crashed"
       /\ last' = [op |-> "__init__", exc |-> r.exc, fs |-> fs]
  /\ SFrame

SList(listdir) ==
  /\ pc = "running"
  /\ last' = [op |-> "get_all_lessons_info", exc |-> "none", fs |-> fs,
              listdir |-> listdir, ret |-> get_all_lessons_info(fs, listdir)]
  /\ UNCHANGED <<fs, pc>>
  /\ SFrame

SLoad(filename) ==
  /\ pc = "running"
  /\ last' = [op |-> "load_lesson", exc |-> "none", fs |-> fs,
              filename |-> filename, ret |-> load_lesson(fs, filename)]
  /\ UNCHANGED <<fs, pc>>
  /\ SFrame

SSave(arg, filename, io_ok) ==
  /\ pc = "running"
  /\ LET r == save_lesson(fs, arg, filename, io_ok) IN
       /\ fs' = r.fs
       /\ last' = [op |-> "save_lesson", exc |-> "none", fs |-> fs, lesson |-> arg,
                   filename |-> filename, ret |-> r.ret, saved |-> r.lesson]
  /\ UNCHANGED pc
  /\ SFrame

SDelete(filename, io_ok) ==
  /\ pc = "running"
  /\ LET r == delete_lesson(fs, filename, io_ok) IN
       /\ fs' = r.fs
       /\ last' = [op |-> "delete_lesson", exc |-> "none", fs |-> fs,
                   filename |-> filename, ret |-> r.ret]
  /\ UNCHANGED pc
  /\ SFrame

SNext ==
  \/ \E io_ok \in BOOLEAN : SConstruct(io_ok)
  \/ \E listdir \in ListDirs(fs) : SList(listdir)
  \/ \E filename \in ArgFileNames : SLoad(filename)
  \/ \E arg \in LessonArgs, filename \in {None, Str(FileB)}, io_ok \in BOOLEAN :
       SSave(arg, filename, io_ok)
  \/ \E filename \in ArgFileNames, io_ok \in BOOLEAN : SDelete(filename, io_ok)

SpecStore == SInit /\ [][SNext]_vars

IsLessonFile(f) == str_endswith(f, JsonExt)

\* C5: load returns a Lesson for every existing file that holds a JSON
\* object, with absent fields defaulted and unknown fields ignored, and
\* fails only for a missing file or one that is not valid structured data.
C5_Load ==
  last.op = "load_lesson" =>
    LET before == last.fs
        f == last.filename
    IN IF before.exists /\ f \in DOMAIN before.files /\ before.files[f].kind = "object"
       THEN /\ ~IsNone(last.ret)
            /\ Len(last.ret.words) = Len(dict_get(before.files[f].obj, "words", <<>>))
       ELSE IsNone(last.ret)

\* C6: constructing the manager when the folder does not exist completes,
\* creates the folder and leaves exactly the seeded example file in it, so
\* that the first listing is not empty.
C6_Seeding ==
  (last.op = "__init__" /\ ~last.fs.exists) =>
    /\ last.exc = "none"
    /\ fs.exists
    /\ DOMAIN fs.files = {SampleFile}
    /\ \A listdir \in ListDirs(fs) : get_all_lessons_info(fs, listdir) # <<>>

ServiceOps ==
  {"__init__", "get_all_lessons_info", "load_lesson", "save_lesson", "delete_lesson"}

\* C7: no operation of the manager raises to its caller.
C7_NeverRaises ==
  last.op \in ServiceOps => last.exc = "none"

\* C9: the listing holds one summary per lesson file; a file holding a JSON
\* object gives valid = true and the number of its words, and a file whose
\* content is not a lesson object gives valid = false, an error, word_count
\* 0 and the filename without its extension as name.
C9_Summaries ==
  last.op = "get_all_lessons_info" =>
    LET infos == last.ret
        files == last.fs.files
        lesson_files == {f \in DOMAIN files : IsLessonFile(f)}
    IN /\ Len(infos) = Cardinality(lesson_files)
       /\ {infos[i].filename : i \in DOMAIN infos} = lesson_files
       /\ \A i \in DOMAIN infos :
            LET info == infos[i]
                content == files[info.filename]
            IN IF content.kind = "object"
               THEN /\ info.valid = TRUE
                    /\ info.word_count = Len(dict_get(content.obj, "words", <<>>))
                    /\ IsNone(info.error)
               ELSE /\ info.valid = FALSE
                    /\ ~IsNone(info.error)
                    /\ info.word_count = 0
                    /\ info.name \o JsonExt = info.filename

C9_Witness ==
  /\ last.op = "get_all_lessons_info"
  /\ \E i, j \in DOMAIN last.ret :
       /\ last.ret[i].valid /\ last.ret[i].word_count = 2
       /\ ~last.ret[j].valid /\ last.fs.files[last.ret[j].filename].kind = "garbage"

\* C10: the listing is in ascending order of filename.
C10_Sorted ==
  last.op = "get_all_lessons_info" =>
    \A i, j \in DOMAIN last.ret :
      i < j => str_lt(last.ret[i].filename, last.ret[j].filename)

C10_Witness ==
  /\ last.op = "get_all_lessons_info"
  /\ Len(last.ret) = 3
  /\ \E i, j \in DOMAIN last.listdir :
       i < j /\ str_lt(last.listdir[j], last.listdir[i])

\* -------------------------------------------- save_lesson and the file name
SaveNames == { <<"A">>, <<"A", " ", "!">>, <<" ", "A", "-", "B", "_", "1">>, <<"A", " ", "b", ".">> }

\* the lessons whose saving derives, or keeps, a file name
SaveArgs ==
  {Lesson_from_dict([name |-> n, description |-> <<"d">>, words |-> FileWords(1),
                     is_valid_json |-> TRUE], filename).val :
     n \in SaveNames, filename \in {None, Str(<<>>), Str(FileB)}}

SaveFolders ==
  { [exists |-> TRUE, files |-> files] :
      files \in { <<>>, [f \in {FileA} |-> Garbage],
                  [f \in {FileA} |-> JsonObject(Lesson_to_dict(Lesson_from_dict(<<>>, None).val))] } }

VInit ==
  /\ fs \in SaveFolders
  /\ pc = "running"
  /\ last = [op |-> "none"]
  /\ lesson = None
  /\ view = "Listing"
  /\ current_lesson = None
  /\ display_words = <<>>
  /\ lessons_info = <<>>
  /\ deleteLesson_modal = None

\* save_lesson(lesson, filename): existed tells whether the file the call
\* ends up naming was there before
VSave(arg, filename, io_ok) ==
  /\ pc = "running"
  /\ LET r == save_lesson(fs, arg, filename, io_ok) IN
       /\ fs' = r.fs
       /\ last' = [op |-> "save_lesson", lesson |-> arg, filename |-> filename,
                   ret |-> r.ret, saved |-> r.lesson,
                   existed |-> r.lesson.filename.s \in DOMAIN fs.files]
  /\ UNCHANGED pc
  /\ SFrame

VNext ==
  \E arg \in SaveArgs, filename \in {None, Str(FileB)}, io_ok \in BOOLEAN :
    VSave(arg, filename, io_ok)

SpecSave == VInit /\ [][VNext]_vars

\* lesson.filename unset and no explicit filename
DerivesName == /\ last.op = "save_lesson"
               /\ ~Truthy(last.filename)
               /\ ~Truthy(last.lesson.filename)

\* the file name derived from a lesson name: the characters outside
\* {alphanumeric, space, hyphen, underscore} removed, the ends stripped of
\* spaces, spaces replaced by underscores, lower-cased, ".json" appended
StrippedName(name) ==
  LET Keep(c) == isalnum(c) \/ c \in {" ", "-", "_"}
  IN str_lower(str_replace(str_strip(SelectSeq(name, Keep)), <<" ">>, <<"_">>)) \o JsonExt

\* the save named the lesson fn and, where the write went through, the file
\* fn holds the lesson whatever it held before
SavedUnder(fn) ==
  /\ last.saved.filename = Str(fn)
  /\ last.ret =>
       /\ fn \in DOMAIN fs.files
       /\ fs.files[fn] = JsonObject(Lesson_to_dict(last.lesson))

\* C15 as stated: with no filename on the lesson and none given, save
\* derives the name by removing the characters outside {alphanumeric, space,
\* hyphen, underscore}, replacing spaces by underscores, lower-casing and
\* appending ".json", writes that file over any existing one and sets
\* lesson.filename to it.
C15_DerivedName ==
  LET Keep(c) == isalnum(c) \/ c \in {" ", "-", "_"}
      kept == SelectSeq(last.lesson.name, Keep)
  IN DerivesName =>
       SavedUnder(str_lower(str_replace(kept, <<" ">>, <<"_">>)) \o JsonExt)

\* C15 amended: the same, with the leading and trailing spaces that remain
\* after the removal dropped before spaces are replaced.
C15_StrippedName == DerivesName => SavedUnder(StrippedName(last.lesson.name))

C15_Witness ==
  /\ DerivesName
  /\ last.ret
  /\ last.existed
  /\ last.lesson.name = <<" ", "A", "-", "B", "_", "1">>
  /\ last.saved.filename = Str(<<"a", "-", "b", "_", "1", ".", "j", "s", "o", "n">>)

\* ================================================ the application (controller)
\* ChineseService: an external collaborator; the model fixes its answers
generate_pinyin(chinese_text) == <<"p">>
get_translation(chinese_text) == <<"e">>

create_word_from_chinese(chinese_text) ==
  Word(chinese_text, generate_pinyin(chinese_text), get_translation(chinese_text))

\* validate_chinese_text: TRUE when the text is accepted
validate_chinese_text(text) == ~(text = <<>> \/ str_strip(text) = <<>>)

\* MainController.refresh_lessons: what MenuView.populate_lessons receives
refresh_lessons(f, listdir) == get_all_lessons_info(f, listdir)

\* a switch to the menu view that keeps the summaries it had
show_menu_view_stale(f, listdir) == lessons_info

\* MainController.show_menu_view: the summaries the menu view then shows
show_menu_view(f, listdir) == refresh_lessons(f, listdir)

\* load_lesson with the assignment of current_lesson before the None test
MainController_load_lesson_early(cur, display, v, f, filename) ==
  LET loaded == load_lesson(f, filename) IN
  IF IsNone(loaded)
  THEN [cur |-> loaded, display |-> display, view |-> v,
        error |-> "Could not load lesson file"]
  ELSE [cur |-> loaded, display |-> loaded.words, view |-> "Detail", error |-> "none"]

\* MainController.load_lesson, with LessonView.set_lesson and show_lesson_view
MainController_load_lesson(cur, display, v, f, filename) ==
  LET loaded == load_lesson(f, filename) IN
  IF IsNone(loaded)
  THEN [cur |-> cur, display |-> display, view |-> v,
        error |-> "Could not load lesson file"]
  ELSE [cur |-> loaded, display |-> loaded.words, view |-> "Detail", error |-> "none"]

\* MainController.delete_lesson: on success the summaries are refreshed and
\* the menu view is shown; current_lesson is left as it is
MainController_delete_lesson(v, info, f, filename, io_ok, listdirs) ==
  LET r == delete_lesson(f, filename, io_ok) IN
  IF r.ret
  THEN {[fs |-> r.fs, view |-> "Listing", lessons_info |-> show_menu_view(r.fs, listdir),
         error |-> "none"] : listdir \in listdirs}
  ELSE {[fs |-> r.fs, view |-> v, lessons_info |-> info,
         error |-> "Failed to delete lesson file"]}

\* the delete-confirmation dialog, keyed by the filename it is built with
ConfirmLessonDelete(filename) == [filename |-> filename]

\* the dialog's confirm button: deletion_confirmed carries the dialog's filename
deletion_confirmed(modal) == modal.filename

\* LessonView.show_deleteLesson_modal: the dialog is built the first time only
LessonView_show_deleteLesson_modal(modal, cur) ==
  IF IsNone(modal) THEN ConfirmLessonDelete(cur.filename.s) ELSE modal

\* the compensation of add_word_to_lesson when the save failed
add_word_rollback_skipped(cur, chinese_text) == cur

add_word_rollback(cur, chinese_text) == remove_word(cur, chinese_text).self

\* no compensation: the removed word stays removed
delete_word_rollback_skipped(cur, word_to_delete) == cur

\* the compensation of delete_word_from_lesson when the save failed
delete_word_rollback(cur, word_to_delete) == add_word(cur, word_to_delete).self

\* MainController.add_word_to_lesson: the new lesson, display and folder, and
\* the message the view is given
add_word_to_lesson(cur, display, f, chinese_text, io_ok) ==
  LET same == [cur |-> cur, display |-> display, fs |-> f] IN
  IF IsNone(cur)
  THEN same @@ [error |-> "No lesson loaded", saved |-> "no"]
  ELSE IF ~validate_chinese_text(chinese_text)
  THEN same @@ [error |-> "Please enter Chinese characters", saved |-> "no"]
  ELSE IF HasKey(cur.words, chinese_text)
  THEN same @@ [error |-> "Word already exists in this lesson", saved |-> "no"]
  ELSE LET new_word == create_word_from_chinese(chinese_text)
           added == add_word(cur, new_word)
       IN IF ~added.ret
          THEN same @@ [error |-> "Failed to add word to lesson", saved |-> "no"]
          ELSE LET s == save_lesson(f, added.self, None, io_ok) IN
               IF ~s.ret
               THEN [cur |-> add_word_rollback(s.lesson, chinese_text),
                     display |-> display, fs |-> s.fs,
                     error |-> "Failed to save lesson file", saved |-> "failed"]
               ELSE [cur |-> s.lesson, display |-> Append(display, new_word),
                     fs |-> s.fs, error |-> "none", saved |-> "yes"]

\* MainController.delete_word_from_lesson; row counts from 0
delete_word_from_lesson(cur, display, f, row, io_ok) ==
  LET same == [cur |-> cur, display |-> display, fs |-> f] IN
  IF IsNone(cur)
  THEN same @@ [error |-> "No lesson loaded", saved |-> "no"]
  ELSE IF row < 0 \/ row >= Len(display)
  THEN same @@ [error |-> "Invalid word selection", saved |-> "no"]
  ELSE LET word_to_delete == display[row + 1]
           removed == remove_word(cur, word_to_delete.chinese)
       IN IF ~removed.ret
          THEN same @@ [error |-> "Failed to remove word from lesson", saved |-> "no"]
          ELSE LET s == save_lesson(f, removed.self, None, io_ok) IN
               IF ~s.ret
               THEN [cur |-> delete_word_rollback(s.lesson, word_to_delete),
                     display |-> display, fs |-> s.fs,
                     error |-> "Failed to save lesson file", saved |-> "failed"]
               ELSE [cur |-> s.lesson, display |-> seq_pop(display, row + 1),
                     fs |-> s.fs, error |-> "none", saved |-> "yes"]

\* MainController.add_new_lesson: the folder afterwards and the dialog shown
add_new_lesson(f, name, description, io_ok) ==
  LET new_lesson == Lesson([name |-> name, description |-> description, words |-> <<>>]) IN
  IF Raised(new_lesson)
  THEN [fs |-> f, error |-> "Failed to create lesson", saved |-> "no"]
  ELSE LET filename == str_replace(str_lower(name), <<" ">>, <<"_">>) \o JsonExt
           s == save_lesson(f, [new_lesson.val EXCEPT !.filename = Str(filename)], None, io_ok)
       IN IF s.ret
          THEN [fs |-> s.fs, error |-> "none", saved |-> "yes"]
          ELSE [fs |-> s.fs, error |-> "Failed to create lesson file", saved |-> "failed"]

\* ----------------------------------------------------------- bounded inputs
WordX2 == Word(<<"x">>, <<>>, <<>>)

\* the word lists of the lesson files the application starts with: none,
\* one, two words, two words with the same chinese key, three words
AppWordLists ==
  { <<>>, <<WordX>>, <<WordX, WordY>>, <<WordX, WordX2>>, <<WordX2, WordY, WordX>> }

AppFileDict(ws, v) ==
  [name |-> <<"A">>, description |-> <<"d">>,
   words |-> [i \in DOMAIN ws |-> Word_to_dict(ws[i])], is_valid_json |-> v]

\* a.json: any of the lists, flagged valid; or a lesson flagged invalid, a
\* lesson in the storage layout without the flag, or no JSON at all
AppContentsA ==
  {JsonObject(AppFileDict(ws, TRUE)) : ws \in AppWordLists}
  \cup {JsonObject(AppFileDict(<<WordX>>, FALSE)),
        JsonObject(Restrict(AppFileDict(<<WordX>>, TRUE), {"name", "description", "words"})),
        Garbage}

AppContentsB == {JsonObject(AppFileDict(<<WordY>>, TRUE)), Garbage}

AppFolders ==
  {NoFs} \cup
  { [exists |-> TRUE, files |-> files] :
      files \in UNION { {f \in [D -> AppContentsA \cup AppContentsB] :
                           /\ FileA \in D => f[FileA] \in AppContentsA
                           /\ FileB \in D => f[FileB] \in AppContentsB} :
                        D \in SUBSET LessonFileNames } }

RawTexts == {<<>>, <<" ">>, <<"x">>, <<" ", "y">>}

BasicGreetingsBang == <<"B","a","s","i","c"," ","G","r","e","e","t","i","n","g","s","!","!">>
RawNames == {<<" ">>, <<"A", " ">>, <<"A", " ", "b">>, BasicGreetingsBang}

\* ------------------------------------------------------------------ actions
Init ==
  /\ fs \in AppFolders
  /\ pc = "off"
  /\ view = "Listing"
  /\ current_lesson = None
  /\ display_words = <<>>
  /\ lessons_info = <<>>
  /\ deleteLesson_modal = None
  /\ lesson = None
  /\ last = [op |-> "none"]

\* MainController(): the services, the views, then the first listing
Launch(io_ok, listdir) ==
  /\ pc \in {"off", "crashed"}
  /\ LET r == LessonManager_init(fs, io_ok) IN
       /\ fs' = r.fs
       /\ IF r.exc # "none"
          THEN /\ pc' = "crashed"
               /\ UNCHANGED <<view, current_lesson, display_words, lessons_info>>
               /\ last' = [op |-> "launch", error |-> r.exc]
          ELSE /\ pc' = "running"
               /\ view' = "Listing"
               /\ current_lesson' = None
               /\ display_words' = <<>>
               /\ lessons_info' = refresh_lessons(r.fs, listdir)
               /\ last' = [op |-> "launch", error |-> "none"]
  /\ UNCHANGED <<lesson, deleteLesson_modal>>

\* the refresh button of the menu view
Refresh(listdir) ==
  /\ pc = "running" /\ view = "Listing"
  /\ lessons_info' = refresh_lessons(fs, listdir)
  /\ last' = [op |-> "refresh", error |-> "none"]
  /\ UNCHANGED <<fs, pc, view, current_lesson, display_words, lesson, deleteLesson_modal>>

\* a lesson button of the menu view (disabled for a summary that is not
\* valid), then MainController.load_lesson and LessonView.set_lesson
SelectLesson(i) ==
  /\ pc = "running" /\ view = "Listing"
  /\ i \in DOMAIN lessons_info
  /\ lessons_info[i].valid
  /\ LET filename == lessons_info[i].filename
         r == MainController_load_lesson(current_lesson, display_words, view, fs, filename)
     IN /\ current_lesson' = r.cur
        /\ display_words' = r.display
        /\ view' = r.view
        /\ last' = [op |-> "load_lesson", filename |-> filename, error |-> r.error]
  /\ UNCHANGED <<fs, pc, lessons_info, lesson, deleteLesson_modal>>

\* the back button: MainController.show_menu_view
Back(listdir) ==
  /\ pc = "running" /\ view = "Detail"
  /\ view' = "Listing"
  /\ lessons_info' = show_menu_view(fs, listdir)
  /\ last' = [op |-> "back", error |-> "none"]
  /\ UNCHANGED <<fs, pc, current_lesson, display_words, lesson, deleteLesson_modal>>

\* LessonView._shuffle_words: random.shuffle may leave any order
Shuffle(p) ==
  /\ pc = "running" /\ view = "Detail"
  /\ display_words # <<>>
  /\ display_words' = [i \in DOMAIN display_words |-> display_words[p[i]]]
  /\ last' = [op |-> "shuffle", error |-> "none"]
  /\ UNCHANGED <<fs, pc, view, current_lesson, lessons_info, lesson, deleteLesson_modal>>

\* LessonView._add_word: the text of the input, stripped, is emitted when it
\* is not empty, and MainController.add_word_to_lesson handles it
AddWord(raw, io_ok) ==
  /\ pc = "running" /\ view = "Detail"
  /\ Len(current_lesson.words) < MaxWords
  /\ LET chinese_text == str_strip(raw) IN
     IF chinese_text = <<>>
     THEN /\ last' = [op |-> "add_word", raw |-> raw, emitted |-> FALSE, error |-> "none",
                      saved |-> "no"]
          /\ UNCHANGED <<fs, current_lesson, display_words>>
     ELSE LET r == add_word_to_lesson(current_lesson, display_words, fs, chinese_text, io_ok)
          IN /\ current_lesson' = r.cur
             /\ display_words' = r.display
             /\ fs' = r.fs
             /\ last' = [op |-> "add_word", raw |-> raw, emitted |-> TRUE,
                         chinese_text |-> chinese_text,
                         error |-> r.error, saved |-> r.saved,
                         words |-> current_lesson.words]
  /\ UNCHANGED <<pc, view, lessons_info, lesson, deleteLesson_modal>>

\* a delete button of the word table: MainController.delete_word_from_lesson
DeleteWord(row, io_ok) ==
  /\ pc = "running" /\ view = "Detail"
  /\ LET r == delete_word_from_lesson(current_lesson, display_words, fs, row, io_ok)
     IN /\ current_lesson' = r.cur
        /\ display_words' = r.display
        /\ fs' = r.fs
        /\ last' = [op |-> "delete_word", row |-> row, error |-> r.error,
                    saved |-> r.saved, words |-> current_lesson.words]
  /\ UNCHANGED <<pc, view, lessons_info, lesson, deleteLesson_modal>>

\* AddLessonModal.create_lesson: the name is stripped and checked, then
\* MainController.add_new_lesson handles the emitted signal
CreateLesson(raw_name, io_ok, listdir) ==
  /\ pc = "running" /\ view = "Listing"
  /\ LET name == str_strip(raw_name) IN
     IF name = <<>> \/ Len(name) < 2
     THEN /\ last' = [op |-> "create_lesson", emitted |-> FALSE, name |-> name,
                      error |-> "Lesson name too short", saved |-> "no"]
          /\ UNCHANGED <<fs, lessons_info>>
     ELSE LET r == add_new_lesson(fs, name, <<>>, io_ok) IN
          /\ fs' = r.fs
          /\ lessons_info' = IF r.saved = "yes" THEN refresh_lessons(r.fs, listdir)
                             ELSE lessons_info
          /\ last' = [op |-> "create_lesson", emitted |-> TRUE, name |-> name,
                      error |-> r.error, saved |-> r.saved, io_ok |-> io_ok,
                      files |-> DOMAIN fs.files]
  /\ UNCHANGED <<pc, view, current_lesson, display_words, lesson, deleteLesson_modal>>

\* the Delete Lesson button of the lesson view: the dialog opens; confirming
\* it emits lesson_delete_requested, which MainController.delete_lesson handles
DetailDeleteLesson(confirm, io_ok) ==
  /\ pc = "running" /\ view = "Detail"
  /\ LET modal == LessonView_show_deleteLesson_modal(deleteLesson_modal, current_lesson)
         filename == deletion_confirmed(modal)
     IN /\ deleteLesson_modal' = modal
        /\ IF ~confirm
           THEN /\ last' = [op |-> "delete_lesson", confirmed |-> FALSE,
                            filename |-> filename, error |-> "none"]
                /\ UNCHANGED <<fs, view, lessons_info>>
           ELSE \E r \in MainController_delete_lesson(view, lessons_info, fs, filename, io_ok,
                            ListDirs(delete_lesson(fs, filename, io_ok).fs)) :
                  /\ fs' = r.fs
                  /\ view' = r.view
                  /\ lessons_info' = r.lessons_info
                  /\ last' = [op |-> "delete_lesson", confirmed |-> TRUE,
                              filename |-> filename, error |-> r.error,
                              existed |-> filename \in DOMAIN fs.files]
  /\ UNCHANGED <<pc, current_lesson, display_words, lesson>>

\* the delete button on a lesson button of the menu view (it is disabled
\* with its lesson button): the dialog opens for that filename; confirming it
\* emits MenuView.delete_lesson_requested, which nothing is connected to
MenuDeleteLesson(i, confirm) ==
  /\ pc = "running" /\ view = "Listing"
  /\ i \in DOMAIN lessons_info
  /\ lessons_info[i].valid
  /\ LET modal == ConfirmLessonDelete(lessons_info[i].filename)
     IN last' = [op |-> "menu_delete", confirmed |-> confirm,
                 filename |-> deletion_confirmed(modal), error |-> "none"]
  /\ UNCHANGED <<fs, pc, view, current_lesson, display_words, lessons_info, lesson,
                 deleteLesson_modal>>

Next ==
  \/ \E io_ok \in BOOLEAN, listdir \in ListDirs(fs) : Launch(io_ok, listdir)
  \/ \E listdir \in ListDirs(fs) : Refresh(listdir)
  \/ \E i \in DOMAIN lessons_info : SelectLesson(i)
  \/ \E listdir \in ListDirs(fs) : Back(listdir)
  \/ \E p \in Perms(DOMAIN display_words) : Shuffle(p)
  \/ \E raw \in RawTexts, io_ok \in BOOLEAN : AddWord(raw, io_ok)
  \/ \E row \in -1..Len(display_words), io_ok \in BOOLEAN : DeleteWord(row, io_ok)
  \/ \E raw_name \in RawNames, io_ok \in BOOLEAN, listdir \in ListDirs(fs) :
       CreateLesson(raw_name, io_ok, listdir)
  \/ \E confirm \in BOOLEAN, io_ok \in BOOLEAN : DetailDeleteLesson(confirm, io_ok)
  \/ \E i \in DOMAIN lessons_info, confirm \in BOOLEAN : MenuDeleteLesson(i, confirm)

Spec == Init /\ [][Next]_vars

\* C3: when the add-word flow appended the word and the save failed, the
\* current lesson's words are what they were before the attempt and the
\* view is given an error.
C3_AddRollback ==
  (last.op = "add_word" /\ last.emitted /\ last.saved = "failed") =>
    /\ current_lesson.words = last.words
    /\ last.error # "none"

C3_Witness ==
  /\ last.op = "add_word" /\ last.emitted /\ last.saved = "failed"
  /\ Len(last.words) >= 1

\* C4: when the delete-word flow removed a word and the save failed, the
\* current lesson's word sequence equals the sequence before the attempt,
\* wherever the deleted word stood.
C4_DeleteRollback ==
  (last.op = "delete_word" /\ last.saved = "failed") =>
    current_lesson.words = last.words

AllowedStemChars == LowerSet \cup DigitSet \cup {"-", "_"}
BasicGreetingsFile == <<"b","a","s","i","c","_","g","r","e","e","t","i","n","g","s",".","j","s","o","n">>

\* C8: the create-lesson flow with a valid name persists a lesson file whose
\* name before the extension holds only lower-case letters, digits, hyphens
\* and underscores; "Basic Greetings!!" gives basic_greetings.json.
C8_CreateLesson ==
  (last.op = "create_lesson" /\ last.emitted /\ last.io_ok) =>
    \E f \in DOMAIN fs.files :
      /\ fs.files[f].kind = "object"
      /\ dict_get(fs.files[f].obj, "name", <<>>) = last.name
      /\ str_endswith(f, JsonExt)
      /\ Range(SubSeq(f, 1, Len(f) - Len(JsonExt))) \subseteq AllowedStemChars
      /\ last.name = BasicGreetingsBang => f = BasicGreetingsFile

\* C12: confirming the deletion of a lesson file that is not in storage
\* reports a failure without raising, and leaves the files in storage, the
\* displayed listing and the current view as they were.
C12_DeleteMissing ==
  [][ (last'.op = "delete_lesson" /\ last'.confirmed
         /\ last'.filename \notin DOMAIN fs.files) =>
        /\ last'.error # "none"
        /\ pc' = pc
        /\ fs' = fs
        /\ lessons_info' = lessons_info
        /\ view' = view ]_vars

C12_Witness ==
  /\ last.op = "delete_lesson" /\ last.confirmed
  /\ ~last.existed
  /\ last.error # "none"
  /\ view = "Detail"

\* C13: in every reachable state the words of the current lesson hold no two
\* entries with the same chinese value, whatever file the lesson was loaded
\* from and whatever add-word and delete-word actions followed.
C13_UniqueKeys ==
  ~IsNone(current_lesson) =>
    \A i, j \in DOMAIN current_lesson.words :
      current_lesson.words[i].chinese = current_lesson.words[j].chinese => i = j

\* C16: selecting a lesson whose load fails leaves the application in the
\* Listing view with an error and the current lesson as it was; the Detail
\* view is entered only by a selection whose load returned a lesson, and the
\* current lesson is then that lesson.
C16_SelectLesson ==
  [][ /\ (last'.op = "load_lesson" /\ IsNone(load_lesson(fs, last'.filename))) =>
           /\ last'.error # "none"
           /\ view' = "Listing"
           /\ current_lesson' = current_lesson
           /\ display_words' = display_words
      /\ (view = "Listing" /\ view' = "Detail") =>
           /\ last'.op = "load_lesson" /\ last'.error = "none"
           /\ ~IsNone(load_lesson(fs, last'.filename))
           /\ current_lesson' = load_lesson(fs, last'.filename) ]_vars

C16_Witness ==
  /\ last.op = "load_lesson" /\ last.error # "none"
  /\ view = "Listing"
  /\ ~IsNone(current_lesson)

\* C17: an add-word request whose text is empty or only spaces, or equals
\* the chinese key of a word of the current lesson, and a create-lesson
\* request whose trimmed name has fewer than 2 characters, perform no save
\* and leave storage and the current lesson's words unchanged.
C17_ValidationErrors ==
  [][ LET blank == \A k \in DOMAIN last'.raw : last'.raw[k] = " "
          duplicate == \E i \in DOMAIN current_lesson.words :
                         current_lesson.words[i].chinese = last'.chinese_text
      IN ( \/ last'.op = "add_word" /\ (blank \/ duplicate)
           \/ last'.op = "create_lesson" /\ Len(last'.name) < 2 ) =>
         /\ last'.saved = "no"
         /\ fs' = fs
         /\ current_lesson' = current_lesson ]_vars

C17_Witness ==
  /\ last.op = "add_word" /\ last.emitted
  /\ \E i \in DOMAIN last.words : last.words[i].chinese = last.chinese_text
  /\ last.error # "none"
  /\ fs.exists

\* the chinese keys of a word list held in memory
MemoryKeys(words) == {words[i].chinese : i \in DOMAIN words}

\* the chinese keys of the words stored in a lesson file: none when the file
\* is missing or holds no JSON object
StoredKeys(f, filename) ==
  IF f.exists /\ filename \in DOMAIN f.files /\ f.files[filename].kind = "object"
  THEN LET ws == dict_get(f.files[filename].obj, "words", <<>>)
       IN {dict_get(ws[i], "chinese", <<>>) : i \in DOMAIN ws}
  ELSE {}

\* C18: in the Detail view, after any add-word and delete-word actions whose
\* saves succeeded or failed, the chinese keys of the current lesson's words
\* in memory are the chinese keys stored in that lesson's file.
C18_MemoryMatchesStorage ==
  (pc = "running" /\ view = "Detail") =>
    /\ current_lesson.filename.s \in DOMAIN fs.files
    /\ MemoryKeys(current_lesson.words) = StoredKeys(fs, current_lesson.filename.s)

C18_Witness ==
  /\ view = "Detail"
  /\ last.op = "delete_word" /\ last.saved = "failed"
  /\ Len(last.words) >= 2
  /\ current_lesson.words # last.words

\* C19: whenever the Listing view is showing after start-up, the displayed
\* summaries are exactly those derived from the lesson files now in storage:
\* one summary per lesson file, none for a file that is gone.
C19_ListingFresh ==
  (pc = "running" /\ view = "Listing") =>
    /\ {lessons_info[i].filename : i \in DOMAIN lessons_info}
         = {f \in DOMAIN fs.files : IsLessonFile(f)}
    /\ \A i, j \in DOMAIN lessons_info :
         lessons_info[i].filename = lessons_info[j].filename => i = j
    /\ \A i \in DOMAIN lessons_info :
         lessons_info[i] = get_lesson_info(fs, lessons_info[i].filename)

C19_Witness ==
  /\ pc = "running" /\ view = "Listing"
  /\ last.op = "delete_lesson" /\ last.confirmed /\ last.error = "none"
  /\ Len(lessons_info) = 1
  /\ lessons_info[1].filename # last.filename

\* C20: confirming the delete-confirmation dialog opened for a lesson from
\* the Listing view makes the persistence service delete that lesson's file:
\* afterwards the file is gone and the listing shows no summary of it, or
\* the failed deletion is reported.
C20_MenuDelete ==
  (last.op = "menu_delete" /\ last.confirmed) =>
    \/ /\ last.filename \notin DOMAIN fs.files
       /\ \A i \in DOMAIN lessons_info : lessons_info[i].filename # last.filename
    \/ last.error # "none"

\* C21: a deletion confirmed from the Detail view of a lesson requests the
\* deletion of that lesson's filename and of no other file, whatever lessons
\* were opened and whatever dialogs were opened and dismissed before.
C21_DeleteTargetsDisplayed ==
  (last.op = "delete_lesson" /\ last.confirmed) =>
    last.filename = current_lesson.filename.s

\* C22: every lesson file whose summary has valid = true can be loaded: on
\* the same, unchanged folder load_lesson returns a Lesson for it.
C22_ListLoadAgree ==
  (last.op = "load_lesson" /\ get_lesson_info(last.fs, last.filename).valid) =>
    ~IsNone(last.ret)

\* the number of times w occurs in a word list
Occurrences(words, w) == Cardinality({i \in DOMAIN words : words[i] = w})

\* C23: in the Detail view, after any shuffle, add-word and delete-word
\* actions with saves succeeding or failing, display_words holds the same
\* words as the current lesson's words, as multisets.
C23_DisplayMatchesLesson ==
  (pc = "running" /\ view = "Detail") =>
    /\ Len(display_words) = Len(current_lesson.words)
    /\ \A w \in Range(display_words) \cup Range(current_lesson.words) :
         Occurrences(display_words, w) = Occurrences(current_lesson.words, w)

\* C24: a shuffle changes neither the current lesson's word sequence nor the
\* stored file; a delete-word request for a row of the display that goes
\* through removes from the lesson exactly the word shown at that row; a row
\* outside 0..len(display_words)-1 is rejected with the lesson and storage
\* unchanged.
C24_ShuffleAndRowDelete ==
  [][ LET words == current_lesson.words
          row == last'.row
          shown == display_words[row + 1]
      IN /\ last'.op = "shuffle" =>
              /\ current_lesson' = current_lesson
              /\ fs' = fs
         /\ (last'.op = "delete_word" /\ row \in 0..(Len(display_words) - 1)
                /\ last'.saved = "yes") =>
              \E k \in DOMAIN words :
                /\ words[k] = shown
                /\ current_lesson'.words = seq_pop(words, k)
         /\ (last'.op = "delete_word" /\ row \notin 0..(Len(display_words) - 1)) =>
              /\ last'.error # "none"
              /\ current_lesson' = current_lesson
              /\ fs' = fs ]_vars

====
